---- MODULE Spec2Model ----
(***************************************************************************)
(* Model of py-utils/src/utils/message_bus/message_broker.py:             *)
(* MessageBrokerFactory (the reflective broker registry) and              *)
(* KafkaMessageBroker (the adapter: __init__, __call__, send, receive,    *)
(* receive_subscribed), together with the part of the confluent_kafka     *)
(* client and of the broker that the adapter's calls act on.              *)
(*                                                                         *)
(* One caller thread drives one factory / adapter (spec section 5).       *)
(* send and an advance of the receive generator are multi-step: each      *)
(* client call (produce, flush, poll) is one step, and the caller is      *)
(* blocked (pc # "idle") until the operation returns or raises.           *)
(* The producer client delivers queued writes in the background.          *)
(***************************************************************************)
EXTENDS Integers, Sequences, FiniteSets, TLC

(* ------------------------------ bounds -------------------------------- *)
\* writes the producer clients accept in total (then produce raises BufferError)
MaxWrites == 2
\* polls of one receive sequence
MaxPolls == 2
\* role-configuration calls made on the adapter
MaxCalls == 2

(* ------------------------------ values -------------------------------- *)
\* Python None for a handle attribute (self.producer, self.consumer)
NoHandle == 0

\* a config key that is not in the dict / a keyword argument not passed
Unset == "<unset>"
Missing == "<missing>"
\* Python None passed as a keyword argument (falsy)
PyNone == "<None>"

Topics == {"S", "T"}

\* the value of a message_type argument: a str, a list holding one str,
\* None (the attribute before any configuration) or a missing keyword
MTStr(t) == <<"str", t>>
MTList(t) == <<"list", t>>
MTNone == <<"none", "">>
MTMissing == <<"missing", "">>

\* the classes inspect.getmembers finds in the module, in name order; a name
\* is the sequence of its CamelCase words, `declared` the class attribute
\* `name` (Unset: the class has none)
ModuleClasses ==
  << [name |-> <<"Admin", "Client">>, declared |-> Unset],
     [name |-> <<"Conf">>, declared |-> Unset],
     [name |-> <<"Consumer">>, declared |-> Unset],
     [name |-> <<"Consumer", "Record">>, declared |-> Unset],
     [name |-> <<"Kafka", "Message", "Broker">>, declared |-> "kafka"],
     [name |-> <<"Message", "Broker">>, declared |-> Unset],
     [name |-> <<"Message", "Broker", "Factory">>, declared |-> Unset],
     [name |-> <<"Message", "Bus", "Error">>, declared |-> Unset],
     [name |-> <<"Producer">>, declared |-> Unset] >>

\* broker-type strings a caller asks the factory for
BrokerTypes == {"kafka", "rabbitmq"}

\* Conf.get('global', 'message_broker')['servers']
Servers == <<"localhost:9092">>

(* ------------------------------ helpers ------------------------------- *)
\* name.endswith("Broker")
EndsWithBroker(name) == Len(name) > 0 /\ name[Len(name)] = "Broker"

\* the condition of lines 43-44 for one member of the module
IsSelected(cls, message_broker) ==
  /\ cls.name # <<"Message", "Broker">>
  /\ EndsWithBroker(cls.name)
  /\ cls.declared = message_broker

\* the loop of lines 42-45: the adapter attribute after the scan (the
\* declared name of the last class selected), Unset when none was selected
RECURSIVE ScanBrokers(_, _, _)
ScanBrokers(classes, message_broker, adapter) ==
  IF classes = <<>> THEN adapter
  ELSE ScanBrokers(Tail(classes), message_broker,
                   IF IsSelected(Head(classes), message_broker)
                     THEN Head(classes).declared ELSE adapter)

\* ','.join(str(server) for server in servers)
RECURSIVE JoinServers(_)
JoinServers(servers) ==
  IF servers = <<>> THEN <<>>
  ELSE IF Len(servers) = 1 THEN <<Head(servers)>>
  ELSE <<Head(servers), ",">> \o JoinServers(Tail(servers))

\* self.config after __init__ (line 78); the other keys are not in the dict
InitialConfig ==
  [bootstrap_servers |-> JoinServers(Servers),
   client_id |-> Unset,
   enable_auto_commit |-> Unset,
   auto_offset_reset |-> Unset,
   group_id |-> Unset]

\* bytes(each_message, 'utf-8') for code points below U+0800
RECURSIVE Utf8(_)
Utf8(s) ==
  IF s = <<>> THEN <<>>
  ELSE LET c == Head(s) IN
       (IF c < 128 THEN <<c>> ELSE <<192 + (c \div 64), 128 + (c % 64)>>)
         \o Utf8(Tail(s))

\* truthiness of a keyword argument (None and "" are falsy)
Truthy(v) == v # PyNone /\ v # Missing

Clients == {"PRODUCER", "CONSUMER", "ADMIN"}

\* the keyword arguments callers pass: a producer's caller passes a topic
\* name and a client id (or forgets it), a consumer's caller a list of topic
\* names (or, by mistake, a bare name), an offset policy and a consumer group
ProducerConfigs ==
  [message_type : {MTStr("S"), MTStr("T")},
   client_id : {"c1", Missing},
   offset : {Missing}, consumer_group : {Missing}]

ConsumerConfigs ==
  [message_type : {MTList("S"), MTStr("T")},
   client_id : {PyNone},
   offset : {"earliest", PyNone},
   consumer_group : {"g1"}]

OtherConfigs ==
  [message_type : {MTStr("T")}, client_id : {PyNone},
   offset : {Missing}, consumer_group : {Missing}]

ClientConfigs(client) ==
  CASE client = "PRODUCER" -> ProducerConfigs
    [] client = "CONSUMER" -> ConsumerConfigs
    [] OTHER -> OtherConfigs

(* ------------------------------- state -------------------------------- *)
VARIABLES
  factory,        \* "new" | "returned" | "raised": MessageBrokerFactory(...)
  requested,      \* the broker-type string the factory was asked for
  adapter,        \* declared name of factory.adapter, Unset: no attribute
  admin,          \* self.admin
  config,         \* self.config
  message_type,   \* self.message_type
  producer,       \* self.producer (a handle, NoHandle for None)
  consumer,       \* self.consumer
  producerCfg,    \* the keyword arguments the current Producer was built with
  queue,          \* writes queued in the current Producer, oldest first
  consumers,      \* per Consumer handle: its offset policy, subscription, position
  log,            \* the broker: per topic, the payloads of its one partition
  nextHandle,     \* the next client handle
  nCalls,         \* role-configuration calls made so far
  pc,             \* "idle" | "send" | "recv": where the caller thread is
  sendMsgs,       \* send: the argument
  sendIdx,        \* send: payloads written so far
  calls,          \* send: the client calls issued, in order
  gen,            \* the generator returned by the last receive()
  result,         \* the last operation and how it came back to the caller
  okProducer,     \* a PRODUCER configuration has returned without error
  okConsumer      \* a CONSUMER configuration has returned without error

vars == <<factory, requested, adapter, admin, config, message_type, producer,
          consumer, producerCfg, queue, consumers, log, nextHandle, nCalls,
          pc, sendMsgs, sendIdx, calls, gen, result, okProducer,
          okConsumer>>

adapterVars == <<admin, config, message_type, producer, consumer, producerCfg,
                 consumers, nextHandle, nCalls, okProducer, okConsumer>>
factoryVars == <<factory, requested, adapter>>
sendVars == <<sendMsgs, sendIdx, calls>>

\* the frame of the last send call is gone once the caller goes on
SendFrameDropped == sendMsgs' = <<>> /\ sendIdx' = 0 /\ calls' = <<>>

Result(op, status) == [op |-> op, status |-> status]

NoGen == [state |-> "none", consumer |-> NoHandle, polls |-> <<>>,
          yielded |-> <<>>, interrupted |-> FALSE]

Init ==
  /\ factory = "new"
  /\ requested = Unset
  /\ adapter = Unset
  /\ admin = NoHandle
  /\ config = InitialConfig
  /\ message_type = MTNone
  /\ producer = NoHandle
  /\ consumer = NoHandle
  /\ producerCfg = InitialConfig
  /\ queue = <<>>
  /\ consumers = <<>>
  /\ log = [t \in Topics |-> <<>>]
  /\ nextHandle = 1
  /\ nCalls = 0
  /\ pc = "idle"
  /\ sendMsgs = <<>>
  /\ sendIdx = 0
  /\ calls = <<>>
  /\ gen = NoGen
  /\ result = Result("none", "ok")
  /\ okProducer = FALSE
  /\ okConsumer = FALSE

\* the caller holds an adapter and is between two operations
Ready == factory = "returned" /\ adapter # Unset /\ pc = "idle"

(* ----------------------- MessageBrokerFactory ------------------------- *)
\* MessageBrokerFactory(message_broker), lines 39-47, with
\* KafkaMessageBroker.__init__, lines 73-82, when a class is selected.
\* ctorOk: whether cls(Conf) (Conf.get, AdminClient) raises nothing.
FactoryInit(message_broker, ctorOk) ==
  /\ factory = "new"
  /\ requested' = message_broker
  /\ LET found == ScanBrokers(ModuleClasses, message_broker, Unset) IN
     IF found # Unset /\ ~ctorOk
       THEN \* the except clause of line 46
            /\ factory' = "raised"
            /\ result' = Result("create", "MessageBusError")
            /\ UNCHANGED <<adapter, admin, nextHandle>>
       ELSE /\ factory' = "returned"
            /\ result' = Result("create", "ok")
            /\ adapter' = found
            /\ IF found # Unset
                 THEN admin' = nextHandle /\ nextHandle' = nextHandle + 1
                 ELSE UNCHANGED <<admin, nextHandle>>
  /\ UNCHANGED <<config, message_type, producer, consumer, producerCfg, queue,
                 consumers, log, nCalls, pc, sendVars, gen,
                 okProducer, okConsumer>>

(* --------------------- KafkaMessageBroker.__call__ -------------------- *)
\* where a Consumer built with configuration cfg and subscribed to topic t
\* starts reading: no offset is ever committed (enable.auto.commit is False
\* and the adapter never commits), so auto.offset.reset decides; the
\* client's default is "latest"
StartPosition(cfg, t) ==
  IF cfg.auto_offset_reset = "earliest" THEN 1 ELSE Len(log[t]) + 1

\* lines 90-91
WithClientId(cfg, client_id) ==
  IF Truthy(client_id) THEN [cfg EXCEPT !.client_id = client_id] ELSE cfg

\* line 96
WithAutoCommitOff(cfg) == [cfg EXCEPT !.enable_auto_commit = "False"]

\* lines 97-98
WithOffset(cfg, offset) ==
  IF Truthy(offset) THEN [cfg EXCEPT !.auto_offset_reset = offset] ELSE cfg

\* lines 99-100
WithGroup(cfg, consumer_group) ==
  IF Truthy(consumer_group) THEN [cfg EXCEPT !.group_id = consumer_group] ELSE cfg

\* Consumer.subscribe(topics) takes a list of topic names
SubscribeAccepts(mt) == mt[1] = "list"

\* Producer.produce(topic, value) takes the topic name as a str
ProduceAccepts(mt) == mt[1] = "str"

\* the except clause of lines 106-107: every exception raised in the try
\* block reaches the caller as MessageBusError; what the block assigned
\* before the exception stays assigned
CallRaises ==
  /\ result' = Result("configure", "MessageBusError")
  /\ UNCHANGED <<okProducer, okConsumer>>

\* adapter(client, **client_config), lines 84-107.
\* ctorOk: the client constructor (Producer / Consumer) raises nothing.
Call(client, client_config, ctorOk) ==
  /\ Ready
  /\ nCalls < MaxCalls
  /\ nCalls' = nCalls + 1
  /\ SendFrameDropped
  /\ UNCHANGED <<factoryVars, admin, log, pc, gen>>
  /\ IF client_config.message_type = MTMissing
       THEN \* line 89 raises KeyError
            /\ CallRaises
            /\ UNCHANGED <<config, message_type, producer, consumer,
                           producerCfg, queue, consumers, nextHandle>>
       ELSE
       /\ message_type' = client_config.message_type
       /\ IF client_config.client_id = Missing
            THEN \* line 90 raises KeyError
                 /\ CallRaises
                 /\ UNCHANGED <<config, producer, consumer, producerCfg,
                                queue, consumers, nextHandle>>
            ELSE
            LET cfg1 == WithClientId(config, client_config.client_id) IN
            CASE client = "PRODUCER" ->
                   /\ config' = cfg1
                   /\ UNCHANGED <<consumer, consumers, okConsumer>>
                   /\ IF ctorOk
                        THEN \* line 94
                             /\ producer' = nextHandle
                             /\ nextHandle' = nextHandle + 1
                             /\ producerCfg' = cfg1
                             /\ queue' = <<>>
                             /\ okProducer' = TRUE
                             /\ result' = Result("configure", "ok")
                        ELSE /\ result' = Result("configure", "MessageBusError")
                             /\ UNCHANGED <<producer, nextHandle, producerCfg,
                                            queue, okProducer>>
              [] client = "CONSUMER" ->
                   LET cfg2 == WithAutoCommitOff(cfg1)
                       cfg3 == WithOffset(cfg2, client_config.offset)
                       cfg4 == WithGroup(cfg3, client_config.consumer_group)
                   IN
                   /\ UNCHANGED <<producer, producerCfg, queue, okProducer>>
                   /\ IF client_config.offset = Missing
                        THEN \* line 97 raises KeyError
                             /\ config' = cfg2
                             /\ CallRaises
                             /\ UNCHANGED <<consumer, consumers, nextHandle>>
                      ELSE IF client_config.consumer_group = Missing
                        THEN \* line 99 raises KeyError
                             /\ config' = cfg3
                             /\ CallRaises
                             /\ UNCHANGED <<consumer, consumers, nextHandle>>
                      ELSE IF ~ctorOk
                        THEN \* line 101 raises
                             /\ config' = cfg4
                             /\ CallRaises
                             /\ UNCHANGED <<consumer, consumers, nextHandle>>
                      ELSE
                        LET mt == client_config.message_type
                            subscribed == SubscribeAccepts(mt)
                        IN
                        /\ config' = cfg4
                        /\ consumer' = nextHandle
                        /\ nextHandle' = nextHandle + 1
                        /\ consumers' = consumers @@ (nextHandle :>
                             [earliest |-> cfg4.auto_offset_reset = "earliest",
                              topic |-> IF subscribed THEN mt[2] ELSE "",
                              pos |-> IF subscribed
                                        THEN StartPosition(cfg4, mt[2]) ELSE 0])
                        /\ IF subscribed
                             THEN /\ okConsumer' = TRUE
                                  /\ UNCHANGED okProducer
                                  /\ result' = Result("configure", "ok")
                             ELSE \* line 102 raises
                                  CallRaises
              [] OTHER ->
                   \* line 104: the assertion fails
                   /\ config' = cfg1
                   /\ CallRaises
                   /\ UNCHANGED <<producer, consumer, producerCfg, queue,
                                  consumers, nextHandle>>

(* ---------------------- KafkaMessageBroker.send ----------------------- *)
\* the lists of messages a caller passes to send: the empty list, and
\* the list ["", "\u00e9"]
Batches == {<<>>, << <<>>, <<233>> >>}

\* the client calls send issues
ProduceCall(mt, payload) == <<"produce", mt, payload>>
FlushCall == <<"flush", MTNone, <<>>>>

\* a loop that walks the list from its end
NextMessageReversed(messages, i) == messages[Len(messages) - i]

\* the for loop of line 113: the message of iteration i (0-based)
NextMessage(messages, i) == messages[i + 1]

\* the broker appends a delivered write to the one partition of its topic
Delivered(lg, write) == [lg EXCEPT ![write[1]] = Append(@, write[2])]

RECURSIVE DeliveredAll(_, _)
DeliveredAll(lg, writes) ==
  IF writes = <<>> THEN lg
  ELSE DeliveredAll(Delivered(lg, Head(writes)), Tail(writes))

\* an exception leaves send as it is: send has no try block (lines 109-115)
SendRaises(error) ==
  /\ pc' = "idle"
  /\ result' = Result("send", error)

\* adapter.send(messages) is called, line 109
Send(messages) ==
  /\ Ready
  /\ pc' = "send"
  /\ sendMsgs' = messages
  /\ sendIdx' = 0
  /\ calls' = <<>>
  /\ result' = Result("send", "pending")
  /\ UNCHANGED <<factoryVars, adapterVars, queue, log, gen>>

\* writes the broker and the producer client hold
Held == Len(queue) + Len(log["S"]) + Len(log["T"])

\* one iteration of the loop, lines 113-114.
\* accepted: the client takes the write (else produce raises KafkaException)
SendProduce(accepted) ==
  /\ pc = "send"
  /\ sendIdx < Len(sendMsgs)
  /\ UNCHANGED <<factoryVars, adapterVars, log, gen, sendMsgs>>
  /\ IF producer = NoHandle
       THEN \* None has no attribute produce
            /\ SendRaises("AttributeError")
            /\ UNCHANGED <<queue, sendIdx, calls>>
       ELSE
       LET payload == Utf8(NextMessage(sendMsgs, sendIdx)) IN
       /\ calls' = Append(calls, ProduceCall(message_type, payload))
       /\ IF ~ProduceAccepts(message_type)
            THEN /\ SendRaises("TypeError")
                 /\ UNCHANGED <<queue, sendIdx>>
          ELSE IF Held >= MaxWrites
            THEN \* the client's queue is full
                 /\ SendRaises("BufferError")
                 /\ UNCHANGED <<queue, sendIdx>>
          ELSE IF ~accepted
            THEN /\ SendRaises("KafkaException")
                 /\ UNCHANGED <<queue, sendIdx>>
          ELSE /\ queue' = Append(queue, <<message_type[2], payload>>)
               /\ sendIdx' = sendIdx + 1
               /\ UNCHANGED <<pc, result>>

\* line 115, after the last iteration.
\* flushed: the client delivers everything queued (else flush raises)
SendFlush(flushed) ==
  /\ pc = "send"
  /\ sendIdx = Len(sendMsgs)
  /\ UNCHANGED <<factoryVars, adapterVars, gen, sendMsgs, sendIdx>>
  /\ IF producer = NoHandle
       THEN /\ SendRaises("AttributeError")
            /\ UNCHANGED <<queue, log, calls>>
       ELSE
       /\ calls' = Append(calls, FlushCall)
       /\ IF flushed
            THEN /\ log' = DeliveredAll(log, queue)
                 /\ queue' = <<>>
                 /\ pc' = "idle"
                 /\ result' = Result("send", "ok")
            ELSE /\ SendRaises("KafkaException")
                 /\ UNCHANGED <<queue, log>>

\* the producer client's background thread delivers the oldest queued write
Deliver ==
  /\ queue # <<>>
  /\ log' = Delivered(log, Head(queue))
  /\ queue' = Tail(queue)
  /\ UNCHANGED <<factoryVars, adapterVars, pc, sendVars, gen, result>>

(* ------- KafkaMessageBroker.receive / receive_subscribed -------------- *)
\* what Consumer.poll returns: None, or a message
NoMessage ==
  [none |-> TRUE, error |-> FALSE, topic |-> "", value |-> <<>>,
   partition |-> -1, offset |-> -1, key |-> PyNone]

\* the next record of the consumer's subscription (offsets count from 0;
\* the adapter writes no key)
NextRecord(c) ==
  [none |-> FALSE, error |-> FALSE, topic |-> c.topic,
   value |-> log[c.topic][c.pos], partition |-> 0, offset |-> c.pos - 1,
   key |-> PyNone]

\* a message that carries a broker-reported error
ErrorMessage(c) ==
  [none |-> FALSE, error |-> TRUE, topic |-> c.topic, value |-> <<>>,
   partition |-> 0, offset |-> c.pos - 1, key |-> PyNone]

HasNext(c) == c.topic # "" /\ c.pos <= Len(log[c.topic])

PollResults(c) ==
  {NoMessage, ErrorMessage(c)} \cup (IF HasNext(c) THEN {NextRecord(c)} ELSE {})

\* str(msg.key())
Str(key) == IF key = PyNone THEN "None" ELSE key

\* a record built with partition and offset in each other's place
ConsumerRecordSwapped(msg) ==
  [message_type |-> msg.topic, message |-> msg.value,
   partition |-> msg.offset, offset |-> msg.partition, key |-> Str(msg.key)]

\* line 139
ConsumerRecord(msg) ==
  [message_type |-> msg.topic, message |-> msg.value,
   partition |-> msg.partition, offset |-> msg.offset, key |-> Str(msg.key)]

\* a loop body without the msg.error() check of line 133
PollBranchNoErrorCheck(msg) ==
  IF msg.none THEN "continue" ELSE "yield"

\* lines 131-139: what the loop body does with a poll result
PollBranch(msg) ==
  IF msg.none THEN "continue"
  ELSE IF msg.error THEN "raise"
  ELSE "yield"

\* a generator without the except clause: the interrupt reaches the caller
InterruptOutcomeUncaught == "KeyboardInterrupt"

\* lines 141-142: KeyboardInterrupt is caught, the generator function
\* returns, and the caller's next() sees the end of the sequence
InterruptOutcome == "StopIteration"

\* adapter.receive(), lines 117-122: builds the generator over the current
\* self.consumer; no line of receive_subscribed runs yet
Receive ==
  /\ Ready
  /\ gen' = [state |-> "created", consumer |-> consumer, polls |-> <<>>,
             yielded |-> <<>>, interrupted |-> FALSE]
  /\ result' = Result("receive", "ok")
  /\ SendFrameDropped
  /\ UNCHANGED <<factoryVars, adapterVars, queue, log, pc>>

\* next(gen) on a generator that can run
Advance ==
  /\ Ready
  /\ gen.state \in {"created", "suspended"}
  /\ pc' = "recv"
  /\ gen' = [gen EXCEPT !.state = "running"]
  /\ result' = Result("next", "pending")
  /\ SendFrameDropped
  /\ UNCHANGED <<factoryVars, adapterVars, queue, log>>

\* next(gen) on a generator that has raised or returned: no line runs
AdvanceFinished ==
  /\ Ready
  /\ gen.state \in {"failed", "ended"}
  /\ result' = Result("next", "StopIteration")
  /\ SendFrameDropped
  /\ UNCHANGED <<factoryVars, adapterVars, queue, log, pc, gen>>

\* one iteration of the loop of lines 129-139
ReceivePoll ==
  /\ pc = "recv"
  /\ UNCHANGED <<factoryVars, admin, config, message_type, producer, consumer,
                 producerCfg, nextHandle, nCalls, okProducer, okConsumer,
                 queue, log, sendVars>>
  /\ IF gen.consumer = NoHandle
       THEN \* None has no attribute poll
            /\ gen' = [gen EXCEPT !.state = "failed"]
            /\ pc' = "idle"
            /\ result' = Result("next", "AttributeError")
            /\ UNCHANGED consumers
       ELSE
       /\ Len(gen.polls) < MaxPolls
       /\ \E msg \in PollResults(consumers[gen.consumer]) :
            /\ consumers' =
                 IF ~msg.none /\ ~msg.error
                   THEN [consumers EXCEPT ![gen.consumer].pos = @ + 1]
                   ELSE consumers
            /\ CASE PollBranch(msg) = "continue" ->
                      /\ gen' = [gen EXCEPT !.polls = Append(@, msg)]
                      /\ UNCHANGED <<pc, result>>
                 [] PollBranch(msg) = "raise" ->
                      /\ gen' = [gen EXCEPT !.polls = Append(@, msg),
                                            !.state = "failed"]
                      /\ pc' = "idle"
                      /\ result' = Result("next", "MessageBusError")
                 [] PollBranch(msg) = "yield" ->
                      /\ gen' = [gen EXCEPT !.polls = Append(@, msg),
                                            !.yielded = Append(@, ConsumerRecord(msg)),
                                            !.state = "suspended"]
                      /\ pc' = "idle"
                      /\ result' = Result("next", "ok")
                 [] OTHER ->
                      \* the generator function returns
                      /\ gen' = [gen EXCEPT !.polls = Append(@, msg),
                                            !.state = "ended"]
                      /\ pc' = "idle"
                      /\ result' = Result("next", "StopIteration")

\* KeyboardInterrupt reaches the thread while it is in consumer.poll
Interrupt ==
  /\ pc = "recv"
  /\ gen.consumer # NoHandle
  /\ gen' = [gen EXCEPT !.state = "ended", !.interrupted = TRUE]
  /\ pc' = "idle"
  /\ result' = Result("next", InterruptOutcome)
  /\ UNCHANGED <<factoryVars, adapterVars, queue, log, sendVars>>

(* --------------------------- specification ---------------------------- *)
Next ==
  \/ \E b \in BrokerTypes, ctorOk \in BOOLEAN : FactoryInit(b, ctorOk)
  \/ \E client \in Clients : \E cc \in ClientConfigs(client) :
       \E ctorOk \in BOOLEAN : Call(client, cc, ctorOk)
  \/ \E messages \in Batches : Send(messages)
  \/ \E accepted \in BOOLEAN : SendProduce(accepted)
  \/ \E flushed \in BOOLEAN : SendFlush(flushed)
  \/ Deliver
  \/ Receive
  \/ Advance
  \/ AdvanceFinished
  \/ ReceivePoll
  \/ Interrupt

Spec == Init /\ [][Next]_vars

(* ------------------------------ claims -------------------------------- *)
\* the declared names of the adapter classes the registry finds
RegisteredNames ==
  {ModuleClasses[i].declared : i \in
     {j \in 1..Len(ModuleClasses) :
        /\ ModuleClasses[j].name # <<"Message", "Broker">>
        /\ EndsWithBroker(ModuleClasses[j].name)}}

\* a role-configuration call for `client` is the step taken
CallOf(client) ==
  \E cc \in ClientConfigs(client), ctorOk \in BOOLEAN : Call(client, cc, ctorOk)

Last(s) == s[Len(s)]

\* C1: a request for a registered broker type that returns yields an adapter
\* of that declared name; a request for an unregistered one fails with
\* MessageBusError instead of returning without an adapter.
C1_CreateMatchesOrFails ==
  factory # "new" =>
    IF requested \in RegisteredNames
      THEN factory = "returned" => adapter = requested
      ELSE factory = "raised" /\ result = Result("create", "MessageBusError")

\* the UTF-8 bytes of the messages of Batches, written out
EncodedAs(m) == IF m = <<>> THEN <<>> ELSE <<195, 169>>

\* C2: when send(m1..mN) has returned without error it issued exactly one
\* write per payload to the bound stream, in the order given, and the flush
\* after the N-th write; the N payloads are then in the stream in that
\* order; and what a subscribed consumer is handed is a run of the stream's
\* records in stream order.
C2_SendWritesInOrderThenFlushes ==
  /\ result = Result("send", "ok") =>
       LET n == Len(sendMsgs)
           stream == log[message_type[2]]
       IN
       /\ Len(calls) = n + 1
       /\ \A i \in 1..n :
            calls[i] = <<"produce", message_type, EncodedAs(sendMsgs[i])>>
       /\ calls[n + 1] = <<"flush", MTNone, <<>>>>
       /\ Len(stream) >= n
       /\ \A i \in 1..n :
            stream[Len(stream) - n + i] = EncodedAs(sendMsgs[i])
       /\ queue = <<>>
  /\ (gen.consumer # NoHandle /\ consumers[gen.consumer].topic # "") =>
       LET c == consumers[gen.consumer] IN
       \A i \in 1..Len(gen.yielded) :
         /\ gen.yielded[i].message_type = c.topic
         /\ gen.yielded[i].offset + 1 \in 1..Len(log[c.topic])
         /\ gen.yielded[i].message = log[c.topic][gen.yielded[i].offset + 1]
         /\ i > 1 => gen.yielded[i].offset = gen.yielded[i - 1].offset + 1

\* C2 witness: a send of two payloads has returned without error on an
\* adapter that also holds a consumer subscribed to the same stream with
\* the earliest offset policy
C2_Witness ==
  /\ result = Result("send", "ok")
  /\ Len(sendMsgs) = 2
  /\ message_type = MTStr("S")
  /\ consumer # NoHandle
  /\ consumers[consumer].topic = "S"
  /\ consumers[consumer].earliest

\* C3: a send on a configured producer that fails in a write or in the
\* flush fails with MessageBusError, whatever the client raised.
C3_SendFailsWithBusError ==
  (/\ result.op = "send"
   /\ result.status \notin {"pending", "ok"}
   /\ producer # NoHandle
   /\ calls # <<>>)
    => result.status = "MessageBusError"

\* the records the claim expects for a sequence of poll results: one per
\* poll that is neither empty nor an error, up to the first error
RECURSIVE ExpectedRecords(_)
ExpectedRecords(polls) ==
  IF polls = <<>> THEN <<>>
  ELSE LET p == Head(polls) IN
       IF p.error THEN <<>>
       ELSE IF p.none THEN ExpectedRecords(Tail(polls))
       ELSE << <<p.topic, p.value, p.partition, p.offset>> >>
              \o ExpectedRecords(Tail(polls))

YieldedFields ==
  [i \in 1..Len(gen.yielded) |->
     <<gen.yielded[i].message_type, gen.yielded[i].message,
       gen.yielded[i].partition, gen.yielded[i].offset>>]

\* C4: the records yielded are exactly those of the polls that were neither
\* empty nor an error, before the first error, in poll order and with the
\* polled topic, payload, partition and offset; after an empty poll the
\* generator is still in its loop (or was interrupted there).
C4_YieldsOnePerRecordPoll ==
  /\ YieldedFields = ExpectedRecords(gen.polls)
  /\ (gen.polls # <<>> /\ Last(gen.polls).none) =>
       \/ gen.state = "running" /\ pc = "recv"
       \/ gen.state = "ended" /\ gen.interrupted

\* C4 witness: an empty poll, then a record at offset 1, which was yielded
C4_Witness ==
  /\ Len(gen.polls) = 2
  /\ gen.polls[1].none
  /\ ~gen.polls[2].none /\ ~gen.polls[2].error
  /\ gen.polls[2].offset = 1
  /\ Len(gen.yielded) = 1

RECURSIVE CountRecords(_)
CountRecords(polls) ==
  IF polls = <<>> THEN 0
  ELSE (IF Head(polls).none \/ Head(polls).error THEN 0 ELSE 1)
         + CountRecords(Tail(polls))

\* C5: a poll result that carries an error is the last poll of its
\* sequence; the sequence has then failed, with MessageBusError at that
\* advance and nothing but the end of the sequence at later ones, and the
\* erroneous result is not among the records yielded.
C5_ErrorPollFailsAtOnce ==
  /\ \A i \in 1..Len(gen.polls) : gen.polls[i].error => i = Len(gen.polls)
  /\ (gen.polls # <<>> /\ Last(gen.polls).error) =>
       /\ gen.state = "failed"
       /\ pc # "recv"
       /\ Len(gen.yielded) = CountRecords(gen.polls)
       /\ result.op = "next" =>
            result.status \in {"MessageBusError", "StopIteration"}

\* C5 witness: after a record and then an error poll, a further advance
\* found the sequence finished
C5_Witness ==
  /\ Len(gen.polls) = 2
  /\ gen.polls[2].error
  /\ Len(gen.yielded) = 1
  /\ result = Result("next", "StopIteration")

\* C6: a receive sequence over a consumer leaves its loop only by a
\* broker-reported error (it has failed) or by an interruption (it has
\* ended, and the caller saw the end of the sequence, not an error); after
\* an empty poll it is still polling and after a record it can be advanced.
C6_EndsOnlyByErrorOrInterrupt ==
  gen.consumer # NoHandle =>
    /\ gen.state = "ended" <=> gen.interrupted
    /\ gen.state = "failed" <=> (gen.polls # <<>> /\ Last(gen.polls).error)
    /\ gen.state = "running" <=> pc = "recv"
    /\ gen.state = "suspended" <=>
         /\ pc # "recv"
         /\ ~gen.interrupted
         /\ gen.polls # <<>>
         /\ ~Last(gen.polls).error
    /\ gen.state = "suspended" => ~Last(gen.polls).none
    /\ (gen.interrupted /\ result.op = "next") =>
         result.status = "StopIteration"

\* C6 witness: the sequence was interrupted after an empty poll and a
\* record, and the caller saw it end
C6_Witness ==
  /\ gen.interrupted
  /\ Len(gen.polls) = 2
  /\ gen.polls[1].none
  /\ Len(gen.yielded) = 1
  /\ result = Result("next", "StopIteration")

\* C7: once a producer (consumer) configuration has succeeded, a further
\* producer (consumer) configuration call does not replace the handle, and
\* if it returns without error it has not rebound the stream either.
C7_RoleSetOnce ==
  [][/\ (okProducer /\ CallOf("PRODUCER")) =>
          /\ producer' = producer
          /\ result'.status = "ok" => message_type' = message_type
     /\ (okConsumer /\ CallOf("CONSUMER")) =>
          /\ consumer' = consumer
          /\ result'.status = "ok" => message_type' = message_type]_vars

\* C8: payloads are written only after a successful producer configuration,
\* polls are made only after a successful consumer configuration, a send
\* without a producer fails without a client call, and the administrative
\* handle is the one made at construction.
C8_RolesRequired ==
  /\ (queue # <<>> \/ calls # <<>> \/ \E t \in Topics : log[t] # <<>>)
       => okProducer
  /\ gen.polls # <<>> => okConsumer
  /\ (result.op = "send" /\ producer = NoHandle /\ pc = "idle")
       => (result.status # "ok" /\ calls = <<>>)
  /\ (factory = "returned" /\ adapter # Unset) => admin = 1

\* C9: a consumer configuration that succeeds on an adapter with a
\* configured producer leaves the bound stream as it was, and no producer
\* is built with the consumer-only settings.
C9_RolesIndependent ==
  [][/\ (okProducer /\ CallOf("CONSUMER") /\ result'.status = "ok")
          => message_type' = message_type
     /\ producer' # NoHandle =>
          /\ producerCfg'.enable_auto_commit = Unset
          /\ producerCfg'.auto_offset_reset = Unset
          /\ producerCfg'.group_id = Unset]_vars

\* C10: a role-configuration call that fails with MessageBusError leaves
\* the bound stream, the connection configuration and both handles as
\* they were.
C10_FailedCallChangesNothing ==
  [][((\E client \in Clients : CallOf(client))
        /\ result' = Result("configure", "MessageBusError"))
       => UNCHANGED <<message_type, config, producer, consumer>>]_vars

====
